---- MODULE Spec2Model ----
(***************************************************************************)
(* Model of the AudioInput widget                                          *)
(* (frontend/lib/src/components/widgets/AudioInput/AudioInput.tsx).        *)
(*                                                                         *)
(* The React state of the component, the WaveSurfer / RecordPlugin         *)
(* instances it creates, the object URLs it creates and revokes, the       *)
(* uploads it starts and the deletions it requests are the state.  Every   *)
(* handler and every callback of the component is one action.  A handler   *)
(* reads the state of the render it was created in and React commits the   *)
(* updates it enqueues before the next event is dispatched, so an action   *)
(* reads the unprimed state and writes the primed one.  The component      *)
(* renders again when an action changes its state or forces a render; the  *)
(* values a render reads from the backend are kept as of that render.      *)
(* After unmount the state setters have no effect.                         *)
(*                                                                         *)
(* null is modelled as 0; backends, object URLs, uploads and deletion URLs *)
(* are numbered from 1 in the order of their creation.  The upload started *)
(* by the record-end handler that created object URL k is upload k, and    *)
(* its deletion URL, when it returns one, is k.                            *)
(***************************************************************************)
EXTENDS Integers, Sequences, FiniteSets, Bags, TLC

\* Bounds of the model.
MaxRecordings == 2      \* recordings started over one mount
MaxBackends == 2        \* runs of initializeWaveSurfer over one mount

\* Inputs: the device lists enumeration may return and the times the
\* backend reports (milliseconds).
DeviceLists == {<< >>, <<2, 1>>}
TimeSamples == {3500}
PlaybackSeconds == {61}
UploadOutcomes == {"deleteUrl", "noDeleteUrl", "rejected"}

VARIABLES
    mounted,                  \* the component is mounted
    refAttached,              \* waveSurferRef.current is not null
    wavesurfer,               \* useState: WaveSurfer instance (0 = null)
    recordPlugin,             \* useState: RecordPlugin instance (0 = null)
    deleteFileUrl,            \* useState: deletion URL (0 = null)
    availableAudioDevices,    \* useState: device list
    activeAudioDeviceId,      \* useState: device id (0 = null)
    recordingUrl,             \* useState: object URL (0 = null)
    progressTime,             \* useState: playback time code
    recordingTime,            \* useState: recording time code
    shouldUpdatePlaybackTime, \* useState
    hasNoMicPermissions,      \* useState
    permission,               \* the getUserMedia / enumeration promise chain
    backends,                 \* number of backends created so far
    destroyed,                \* backends whose destroy() was called
    cleanup,                  \* backend the effect's registered cleanup destroys (0 = none)
    starting,                 \* bag of record plugins: one copy per pending startRecording promise
    micActive,                \* record plugins that are recording
    stopping,                 \* record-end events not yet delivered, by plugin, in order
    rendered,                 \* isRecording and isPlaying as the last render read them
    playing,                  \* WaveSurfer instances that are playing
    revokeCount,              \* revokeCount[u]: revocations of object URL u
    upload,                   \* upload[k]: "pending", "ok" or "failed"
    deleteCalls,              \* deleteCalls[k]: deleteFile calls with deletion URL k
    recordEndCalls,           \* the calls of the latest record-end handler, in order
    lastOp,                   \* the handler or callback that ran last
    issued                    \* the collaborator calls that handler issued

reactState == <<wavesurfer, recordPlugin, deleteFileUrl, availableAudioDevices,
                activeAudioDeviceId, recordingUrl, progressTime, recordingTime,
                shouldUpdatePlaybackTime, hasNoMicPermissions>>

backendState == <<backends, destroyed, cleanup, starting, micActive, stopping, playing>>

resourceState == <<revokeCount, upload, deleteCalls>>

vars == <<mounted, refAttached, reactState, permission, backendState,
          rendered, resourceState, recordEndCalls, lastOp, issued>>

----------------------------------------------------------------------------
\* constants.ts and formatTime.ts

STARTING_TIME_STRING == "00:00"

Digit(d) ==
    CASE d = 0 -> "0" [] d = 1 -> "1" [] d = 2 -> "2" [] d = 3 -> "3"
      [] d = 4 -> "4" [] d = 5 -> "5" [] d = 6 -> "6" [] d = 7 -> "7"
      [] d = 8 -> "8" [] d = 9 -> "9"

padZero(n) == Digit((n \div 10) % 10) \o Digit(n % 10)

formatTime(ms) == padZero((ms \div 60000) % 60) \o ":" \o padZero((ms \div 1000) % 60)

----------------------------------------------------------------------------
\* Values the render derives from the state.

urls == Len(revokeCount)

\* recordPlugin?.isRecording() and wavesurfer?.isPlaying(), as the backend
\* answers them now.
pluginIsRecording == recordPlugin # 0 /\ recordPlugin \in micActive

wavesurferIsPlaying == wavesurfer # 0 /\ wavesurfer \in playing

\* The constants of the last render (lines 256-257).
isRecording == rendered.isRecording

isPlaying == rendered.isPlaying

ClearAffordance == deleteFileUrl # 0

displayedTime == IF shouldUpdatePlaybackTime THEN progressTime ELSE recordingTime

UploadPending == \E k \in 1..Len(upload) : upload[k] = "pending"

LiveUrls == {u \in 1..urls : revokeCount[u] = 0}

LiveBackends == (1..backends) \ destroyed

\* The session status of the specification, read off the component's state
\* and the record plugin's.
Status ==
    IF hasNoMicPermissions THEN "NoPermission"
    ELSE IF pluginIsRecording THEN "Recording"
    ELSE IF recordingUrl # 0 THEN "Recorded"
    ELSE IF permission \in {"prompting", "granted"} THEN "AwaitingPermission"
    ELSE "Ready"

\* One more call counted for resource k (no resource is numbered 0).
Bump(count, k) == [i \in 1..Len(count) |-> IF i = k THEN count[i] + 1 ELSE count[i]]

\* A state setter: no effect once the component is unmounted.
SetState(cur, new) == IF mounted THEN new ELSE cur

----------------------------------------------------------------------------
Init ==
    /\ mounted = TRUE
    /\ refAttached \in BOOLEAN
    /\ wavesurfer = 0
    /\ recordPlugin = 0
    /\ deleteFileUrl = 0
    /\ availableAudioDevices = << >>
    /\ activeAudioDeviceId = 0
    /\ recordingUrl = 0
    /\ progressTime = STARTING_TIME_STRING
    /\ recordingTime = STARTING_TIME_STRING
    /\ shouldUpdatePlaybackTime = FALSE
    /\ hasNoMicPermissions = FALSE
    /\ permission = "unrequested"
    /\ backends = 0
    /\ destroyed = {}
    /\ cleanup = 0
    /\ starting = EmptyBag
    /\ micActive = {}
    /\ stopping = << >>
    /\ rendered = [isRecording |-> FALSE, isPlaying |-> FALSE]
    /\ playing = {}
    /\ revokeCount = << >>
    /\ upload = << >>
    /\ deleteCalls = << >>
    /\ recordEndCalls = << >>
    /\ lastOp = "render"
    /\ issued = {}

----------------------------------------------------------------------------
\* Effects.

\* The render that follows an action: React renders the mounted component
\* again when the action changed its state, or forced a render (a render of
\* the parent, forceRerender, a state set to a new object); the render
\* reads isRecording() and isPlaying().
Render(forced) ==
    rendered' = IF mounted' /\ (forced \/ reactState' # reactState)
                THEN [isRecording |-> recordPlugin' # 0 /\ recordPlugin' \in micActive',
                      isPlaying |-> wavesurfer' # 0 /\ wavesurfer' \in playing']
                ELSE rendered

\* WaveSurfer.destroy() and RecordPlugin.destroy() of backend b (0 = nothing
\* to destroy): the instance stops recording and playing and emits no more
\* events.
Destroy(b) ==
    /\ destroyed' = (IF b = 0 THEN destroyed ELSE destroyed \cup {b})
    /\ starting' = [q \in DOMAIN starting \ {b} |-> starting[q]]
    /\ micActive' = micActive \ {b}
    /\ stopping' = SelectSeq(stopping, LAMBDA q : q # b)
    /\ playing' = playing \ {b}

\* The cleanup the effect of lines 192-194 registers with React, given the
\* backend whose destroy closure initializeWaveSurfer returned (0 = it
\* returned undefined).  The effect's body is a block that calls
\* initializeWaveSurfer() and returns nothing.
EffectCleanup(returned) == 0

\* initializeWaveSurfer, run by the effect: React first runs the cleanup the
\* previous run registered.
InitializeWaveSurfer ==
    /\ Destroy(cleanup)
    /\ IF ~refAttached
         THEN /\ UNCHANGED <<wavesurfer, recordPlugin, backends>>
              /\ cleanup' = EffectCleanup(0)
         ELSE /\ backends' = backends + 1
              /\ wavesurfer' = backends + 1
              /\ recordPlugin' = backends + 1
              /\ cleanup' = EffectCleanup(backends + 1)

\* The effects of the first render: the permission request (lines 116-131)
\* and the backend initialisation (lines 192-194).
MountEffects ==
    /\ mounted /\ permission = "unrequested"
    /\ permission' = "prompting"
    /\ InitializeWaveSurfer
    /\ UNCHANGED recordEndCalls
    /\ lastOp' = "mount"
    /\ issued' = {"getUserMedia"}
    /\ UNCHANGED <<mounted, refAttached, deleteFileUrl, availableAudioDevices,
                   activeAudioDeviceId, recordingUrl, progressTime, recordingTime,
                   shouldUpdatePlaybackTime, hasNoMicPermissions, resourceState>>
    /\ Render(TRUE)

\* theme or uploadTheFile changed: initializeWaveSurfer is a new callback and
\* its effect runs again.
DepsChange ==
    /\ mounted /\ permission # "unrequested"
    /\ backends < MaxBackends
    /\ InitializeWaveSurfer
    /\ UNCHANGED recordEndCalls
    /\ lastOp' = "depsChange"
    /\ issued' = {}
    /\ UNCHANGED <<mounted, refAttached, deleteFileUrl, availableAudioDevices,
                   activeAudioDeviceId, recordingUrl, progressTime, recordingTime,
                   shouldUpdatePlaybackTime, hasNoMicPermissions, permission,
                   resourceState>>
    /\ Render(TRUE)

\* The parent renders the component again with props that leave theme and
\* uploadTheFile as they were: no effect runs.
ParentRender ==
    /\ mounted /\ permission # "unrequested"
    /\ UNCHANGED recordEndCalls
    /\ lastOp' = "render"
    /\ issued' = {}
    /\ UNCHANGED <<mounted, refAttached, reactState, permission, backendState,
                   resourceState>>
    /\ Render(TRUE)

Unmount ==
    /\ mounted /\ permission # "unrequested"
    /\ mounted' = FALSE
    /\ Destroy(cleanup)
    /\ cleanup' = 0
    /\ UNCHANGED recordEndCalls
    /\ lastOp' = "unmount"
    /\ issued' = {}
    /\ UNCHANGED <<refAttached, reactState, permission, backends,
                   resourceState>>
    /\ Render(FALSE)

----------------------------------------------------------------------------
\* The permission promise chain (lines 116-131).

PermissionGranted ==
    /\ permission = "prompting"
    /\ permission' = "granted"
    /\ UNCHANGED recordEndCalls
    /\ lastOp' = "permissionGranted"
    /\ issued' = {"getAvailableAudioDevices"}
    /\ UNCHANGED <<mounted, refAttached, reactState, backendState, resourceState>>
    /\ Render(FALSE)

\* The device the enumeration callback makes active (line 124).
DefaultDevice_Last(devices) == devices[Len(devices)]

DefaultDevice(devices) == devices[1]

DevicesEnumerated(devices) ==
    /\ permission = "granted"
    /\ permission' = "enumerated"
    /\ availableAudioDevices' = SetState(availableAudioDevices, devices)  \* a new array
    /\ activeAudioDeviceId' =
         (IF Len(devices) > 0 THEN SetState(activeAudioDeviceId, DefaultDevice(devices))
          ELSE activeAudioDeviceId)
    /\ UNCHANGED recordEndCalls
    /\ lastOp' = "devices"
    /\ issued' = {}
    /\ UNCHANGED <<mounted, refAttached, wavesurfer, recordPlugin, deleteFileUrl,
                   recordingUrl, progressTime, recordingTime,
                   shouldUpdatePlaybackTime, hasNoMicPermissions, backendState,
                   resourceState>>
    /\ Render(TRUE)

PermissionDenied ==
    /\ permission = "prompting"
    /\ permission' = "denied"
    /\ hasNoMicPermissions' = SetState(hasNoMicPermissions, TRUE)
    /\ UNCHANGED recordEndCalls
    /\ lastOp' = "permissionDenied"
    /\ issued' = {}
    /\ UNCHANGED <<mounted, refAttached, wavesurfer, recordPlugin, deleteFileUrl,
                   availableAudioDevices, activeAudioDeviceId, recordingUrl,
                   progressTime, recordingTime, shouldUpdatePlaybackTime,
                   backendState, resourceState>>
    /\ Render(FALSE)

----------------------------------------------------------------------------
\* Handlers of the component.

\* The recordings started and the starts pending so far.
Recordings == urls + Len(stopping) + Cardinality(micActive) + BagCardinality(starting)

\* The early return of startRecording (lines 207-209).
startRecordingReturnsEarly_NoDeviceCheck == recordPlugin = 0 \/ wavesurfer = 0

startRecordingReturnsEarly ==
    recordPlugin = 0 \/ activeAudioDeviceId = 0 \/ wavesurfer = 0

\* startRecording (lines 206-219): the handler sets the wave colour and calls
\* recordPlugin.startRecording, whose promise is pending when it returns;
\* every call has a promise and a then-callback of its own.
\* The model starts no more than MaxRecordings recordings.
startRecording ==
    /\ mounted /\ permission # "unrequested"
    /\ UNCHANGED recordEndCalls
    /\ lastOp' = "startRecording"
    /\ IF startRecordingReturnsEarly
         THEN /\ issued' = {}
              /\ UNCHANGED starting
         ELSE /\ Recordings < MaxRecordings
              /\ starting' = starting (+) SetToBag({recordPlugin})
              /\ issued' = {"ws.setOptions", "rp.startRecording"}
    /\ UNCHANGED <<mounted, refAttached, reactState, permission, backends,
                   destroyed, cleanup, micActive, stopping, playing, resourceState>>
    /\ Render(FALSE)

\* One pending promise of recordPlugin.startRecording of plugin p is
\* fulfilled: the plugin records, and the then-callback forces a render
\* (lines 215-218).
StartResolved(p) ==
    /\ BagIn(p, starting)
    /\ starting' = starting (-) SetToBag({p})
    /\ micActive' = micActive \cup {p}
    /\ UNCHANGED recordEndCalls
    /\ lastOp' = "recording-started"
    /\ issued' = {}
    /\ UNCHANGED <<mounted, refAttached, reactState, permission, backends,
                   destroyed, cleanup, stopping, playing, resourceState>>
    /\ Render(TRUE)

\* stopRecording (lines 221-225): a plugin that is recording stops and will
\* emit record-end; one that is not recording, a pending start included,
\* ignores the call.
stopRecording ==
    /\ mounted /\ permission # "unrequested"
    /\ UNCHANGED recordEndCalls
    /\ lastOp' = "stopRecording"
    /\ IF recordPlugin = 0
         THEN /\ issued' = {}
              /\ UNCHANGED <<starting, micActive, stopping>>
         ELSE /\ issued' = {"rp.stopRecording"}
              /\ UNCHANGED starting
              /\ micActive' = micActive \ {recordPlugin}
              /\ stopping' = (IF recordPlugin \in micActive
                                THEN Append(stopping, recordPlugin) ELSE stopping)
    /\ UNCHANGED <<mounted, refAttached, reactState, permission, backends,
                   destroyed, cleanup, playing, resourceState>>
    /\ Render(FALSE)

\* onClickPlayPause (lines 196-204).
onClickPlayPause ==
    /\ mounted /\ permission # "unrequested"
    /\ UNCHANGED recordEndCalls
    /\ lastOp' = "onClickPlayPause"
    /\ IF wavesurfer = 0
         THEN /\ issued' = {}
              /\ UNCHANGED <<playing, shouldUpdatePlaybackTime>>
         ELSE /\ issued' = {"ws.playPause"}
              /\ playing' = (IF wavesurfer \in playing THEN playing \ {wavesurfer}
                             ELSE playing \cup {wavesurfer})
              /\ shouldUpdatePlaybackTime' = TRUE
    /\ UNCHANGED <<mounted, refAttached, wavesurfer, recordPlugin, deleteFileUrl,
                   availableAudioDevices, activeAudioDeviceId, recordingUrl,
                   progressTime, recordingTime, hasNoMicPermissions, permission,
                   backends, destroyed, cleanup, starting, micActive, stopping,
                   resourceState>>
    /\ Render(FALSE)

\* The early return of handleClear (lines 228-230).
handleClearReturnsEarly_NoHandleCheck == wavesurfer = 0

handleClearReturnsEarly == wavesurfer = 0 \/ deleteFileUrl = 0

\* handleClear without setRecordingTime(STARTING_TIME_STRING).
handleClear_KeepsRecordingTime ==
    /\ mounted /\ permission # "unrequested"
    /\ UNCHANGED recordEndCalls
    /\ lastOp' = "handleClear"
    /\ IF handleClearReturnsEarly
         THEN /\ issued' = {}
              /\ UNCHANGED <<recordingUrl, playing, deleteCalls, progressTime,
                             recordingTime, deleteFileUrl,
                             shouldUpdatePlaybackTime, revokeCount>>
         ELSE /\ recordingUrl' = 0
              /\ playing' = playing \ {wavesurfer}
              /\ deleteCalls' = Bump(deleteCalls, deleteFileUrl)
              /\ progressTime' = STARTING_TIME_STRING
              /\ recordingTime' = recordingTime
              /\ deleteFileUrl' = 0
              /\ shouldUpdatePlaybackTime' = FALSE
              /\ revokeCount' = (IF recordingUrl # 0
                                   THEN Bump(revokeCount, recordingUrl)
                                   ELSE revokeCount)
              /\ issued' = {"ws.empty", "deleteFile", "setFileUploaderStateValue"}
                             \cup (IF recordingUrl # 0 THEN {"revokeObjectURL"} ELSE {})
    /\ UNCHANGED <<mounted, refAttached, wavesurfer, recordPlugin,
                   availableAudioDevices, activeAudioDeviceId, hasNoMicPermissions,
                   permission, backends, destroyed, cleanup, starting, micActive, stopping,
                   upload>>
    /\ Render(FALSE)

\* handleClear (lines 227-254), the callback of the last render, invoked by a
\* click on the clear action (line 284): it reads the wavesurfer,
\* deleteFileUrl and recordingUrl that render captured, and React renders
\* again before the next click.  wavesurfer.empty() ends the playback.
handleClear ==
    /\ mounted /\ permission # "unrequested"
    /\ UNCHANGED recordEndCalls
    /\ lastOp' = "handleClear"
    /\ IF handleClearReturnsEarly
         THEN /\ issued' = {}
              /\ UNCHANGED <<recordingUrl, playing, deleteCalls, progressTime,
                             recordingTime, deleteFileUrl,
                             shouldUpdatePlaybackTime, revokeCount>>
         ELSE /\ recordingUrl' = 0
              /\ playing' = playing \ {wavesurfer}
              /\ deleteCalls' = Bump(deleteCalls, deleteFileUrl)
              /\ progressTime' = STARTING_TIME_STRING
              /\ recordingTime' = STARTING_TIME_STRING
              /\ deleteFileUrl' = 0
              /\ shouldUpdatePlaybackTime' = FALSE
              /\ revokeCount' = (IF recordingUrl # 0
                                   THEN Bump(revokeCount, recordingUrl)
                                   ELSE revokeCount)
              /\ issued' = {"ws.empty", "deleteFile", "setFileUploaderStateValue"}
                             \cup (IF recordingUrl # 0 THEN {"revokeObjectURL"} ELSE {})
    /\ UNCHANGED <<mounted, refAttached, wavesurfer, recordPlugin,
                   availableAudioDevices, activeAudioDeviceId, hasNoMicPermissions,
                   permission, backends, destroyed, cleanup, starting, micActive, stopping,
                   upload>>
    /\ Render(FALSE)

----------------------------------------------------------------------------
\* Callbacks of the backend and of the upload.

\* The calls of the record-end handler in the order it makes them (lines
\* 163-176): the object URL and the File are made from the blob before
\* uploadTheFile is called with the File.
RecordEndCallOrder ==
    <<"createObjectURL", "setRecordingUrl", "new File", "uploadFiles", "ws.setOptions">>

\* rp.on("record-end") of backend p (lines 162-177).
RecordEnd(p) ==
    /\ stopping # << >> /\ p = Head(stopping)
    /\ stopping' = Tail(stopping)
    /\ revokeCount' = Append(revokeCount, 0)
    /\ recordingUrl' = SetState(recordingUrl, urls + 1)
    /\ upload' = Append(upload, "pending")
    /\ deleteCalls' = Append(deleteCalls, 0)
    /\ recordEndCalls' = RecordEndCallOrder
    /\ lastOp' = "record-end"
    /\ issued' = {"createObjectURL", "uploadFiles", "ws.setOptions"}
    /\ UNCHANGED <<mounted, refAttached, wavesurfer, recordPlugin, deleteFileUrl,
                   availableAudioDevices, activeAudioDeviceId, progressTime,
                   recordingTime, shouldUpdatePlaybackTime, hasNoMicPermissions,
                   permission, backends, destroyed, cleanup, starting, micActive, playing>>
    /\ Render(FALSE)

\* rp.on("record-progress") of backend p (lines 179-181).
RecordProgress(p, ms) ==
    /\ p \in micActive
    /\ recordingTime' = SetState(recordingTime, formatTime(ms))
    /\ UNCHANGED recordEndCalls
    /\ lastOp' = "record-progress"
    /\ issued' = {}
    /\ UNCHANGED <<mounted, refAttached, wavesurfer, recordPlugin, deleteFileUrl,
                   availableAudioDevices, activeAudioDeviceId, recordingUrl,
                   progressTime, shouldUpdatePlaybackTime, hasNoMicPermissions,
                   permission, backendState, resourceState>>
    /\ Render(FALSE)

\* ws.on("timeupdate") of backend w (lines 147-149): time is in seconds.
TimeUpdate(w, time) ==
    /\ w \in playing
    /\ progressTime' = SetState(progressTime, formatTime(time * 1000))
    /\ UNCHANGED recordEndCalls
    /\ lastOp' = "timeupdate"
    /\ issued' = {}
    /\ UNCHANGED <<mounted, refAttached, wavesurfer, recordPlugin, deleteFileUrl,
                   availableAudioDevices, activeAudioDeviceId, recordingUrl,
                   recordingTime, shouldUpdatePlaybackTime, hasNoMicPermissions,
                   permission, backendState, resourceState>>
    /\ Render(FALSE)

\* ws.on("pause") of backend w (lines 151-153): playback paused or ended; the
\* handler only forces a render.
Pause(w) ==
    /\ w \in playing
    /\ playing' = playing \ {w}
    /\ UNCHANGED recordEndCalls
    /\ lastOp' = "pause"
    /\ issued' = {}
    /\ UNCHANGED <<mounted, refAttached, reactState, permission, backends,
                   destroyed, cleanup, starting, micActive, stopping,
                   resourceState>>
    /\ Render(TRUE)

\* The then-callback of uploadTheFile stores the deletion URL (lines 107-110):
\* only when the first successful upload exists and has one.
StoresDeleteUrl(outcome) == outcome = "deleteUrl"

\* The promise of upload k settles (lines 101-111): fulfilled with a
\* successful upload that has a deletion URL, fulfilled without one, or
\* rejected.
UploadSettled(k, outcome) ==
    /\ k \in 1..Len(upload) /\ upload[k] = "pending"
    /\ upload' = [upload EXCEPT ![k] = IF outcome = "deleteUrl" THEN "ok" ELSE "failed"]
    /\ deleteFileUrl' = (IF StoresDeleteUrl(outcome) THEN SetState(deleteFileUrl, k)
                         ELSE deleteFileUrl)
    /\ UNCHANGED recordEndCalls
    /\ lastOp' = "upload-settled"
    /\ issued' = {}
    /\ UNCHANGED <<mounted, refAttached, wavesurfer, recordPlugin,
                   availableAudioDevices, activeAudioDeviceId, recordingUrl,
                   progressTime, recordingTime, shouldUpdatePlaybackTime,
                   hasNoMicPermissions, permission, backendState, revokeCount,
                   deleteCalls>>
    /\ Render(FALSE)

----------------------------------------------------------------------------
Next ==
    \/ MountEffects
    \/ DepsChange
    \/ Unmount
    \/ PermissionGranted
    \/ \E devices \in DeviceLists : DevicesEnumerated(devices)
    \/ PermissionDenied
    \/ startRecording
    \/ stopRecording
    \/ onClickPlayPause
    \/ handleClear
    \/ ParentRender
    \/ \E p \in BagToSet(starting) : StartResolved(p)
    \/ \E p \in 1..backends : RecordEnd(p)
    \/ \E p \in micActive, ms \in TimeSamples : RecordProgress(p, ms)
    \/ \E w \in playing, time \in PlaybackSeconds : TimeUpdate(w, time)
    \/ \E w \in playing : Pause(w)
    \/ \E k \in 1..Len(upload), outcome \in UploadOutcomes : UploadSettled(k, outcome)

Spec == Init /\ [][Next]_vars

----------------------------------------------------------------------------
\* Properties.

\* C1: at most one captured artifact (an object URL created by record-end
\* and not yet revoked) is live at any time: a record-end that creates a new
\* object URL while the previous one is unrevoked leaves the previous one
\* revoked.
C1_AtMostOneLiveArtifact == Cardinality(LiveUrls) <= 1

\* C2: a handleClear that finds deleteFileUrl null, or no backend, issues no
\* call (no deleteFile, no widget-state update, no revocation) and leaves the
\* component's state, the object URLs, the uploads and the deletion counts
\* as they were.
C2_ClearIsNoOpWithoutHandle ==
    [][(lastOp' = "handleClear" /\ (deleteFileUrl = 0 \/ wavesurfer = 0))
         => (/\ issued' = {}
             /\ UNCHANGED <<reactState, backendState, resourceState>>)]_vars

\* A handleClear that did nothing, called with a recording held whose upload
\* stored no deletion URL.
C2_Witness ==
    /\ lastOp = "handleClear" /\ issued = {}
    /\ wavesurfer # 0 /\ recordingUrl # 0 /\ deleteFileUrl = 0

\* C3: once hasNoMicPermissions is set it stays set, and no handler call
\* starts a recording: no step issues rp.startRecording, no record plugin
\* starts, records or owes a record-end, and the status stays NoPermission.
C3_NoPermissionIsTerminal ==
    [][hasNoMicPermissions
         => (/\ hasNoMicPermissions'
             /\ Status' = "NoPermission"
             /\ "rp.startRecording" \notin issued'
             /\ starting' = EmptyBag /\ micActive' = {}
             /\ stopping' = << >> /\ urls' = 0)]_vars

\* startRecording was called, with a backend initialised, after the denial.
C3_Witness ==
    /\ hasNoMicPermissions /\ permission = "denied"
    /\ lastOp = "startRecording" /\ wavesurfer # 0 /\ recordPlugin # 0

\* C4: a handleClear in the Recorded state with a deletion URL held leaves
\* the status Ready, deleteFileUrl and recordingUrl null, both time codes at
\* the starting time code and shouldUpdatePlaybackTime off, and requests
\* exactly one deletion, of the deletion URL that was held: that URL's count
\* goes from 0 to 1 and no other count changes.
C4_ClearReturnsToReady ==
    [][(lastOp' = "handleClear" /\ Status = "Recorded" /\ deleteFileUrl # 0
          /\ wavesurfer # 0)
         => (/\ Status' = "Ready"
             /\ deleteFileUrl' = 0 /\ recordingUrl' = 0
             /\ progressTime' = STARTING_TIME_STRING
             /\ recordingTime' = STARTING_TIME_STRING
             /\ shouldUpdatePlaybackTime' = FALSE
             /\ "deleteFile" \in issued'
             /\ deleteCalls[deleteFileUrl] = 0
             /\ deleteCalls' = Bump(deleteCalls, deleteFileUrl))]_vars

\* A clear has just run on a recording whose upload had succeeded: its
\* deletion was requested, its object URL revoked and the session is Ready.
C4_Witness ==
    /\ lastOp = "handleClear" /\ {"deleteFile", "revokeObjectURL"} \subseteq issued
    /\ upload = <<"ok">> /\ deleteCalls = <<1>> /\ revokeCount = <<1>>
    /\ Status = "Ready" /\ deleteFileUrl = 0 /\ recordingUrl = 0

\* C5: the settlement of an upload that failed (rejected, or fulfilled
\* without a successful upload that has a deletion URL) leaves the status,
\* recordingUrl and the object URLs as they were and does not store that
\* upload's deletion URL; and when it is the upload of the latest recording,
\* no deletion URL is held afterwards and the clear affordance is off.
C5_UploadFailureKeepsRecorded ==
    [][\A k \in 1..Len(upload) :
         (upload[k] = "pending" /\ upload'[k] = "failed")
            => (/\ Status' = Status
                /\ recordingUrl' = recordingUrl
                /\ revokeCount' = revokeCount
                /\ deleteFileUrl' # k
                /\ k = urls => (deleteFileUrl' = 0 /\ ~ClearAffordance'))]_vars

\* C7: no upload is pending while the clear affordance is enabled.
C7_ClearDisabledWhileUploading == ~(UploadPending /\ ClearAffordance)

\* C8: no object URL is revoked twice, and once the component is unmounted
\* every object URL created has been revoked.
C8_EveryUrlRevokedOnce ==
    /\ \A u \in 1..urls : revokeCount[u] <= 1
    /\ ~mounted => \A u \in 1..urls : revokeCount[u] = 1

\* C9: at most one undestroyed backend exists at any time and none remains
\* after unmount.
C9_AtMostOneLiveBackend ==
    /\ Cardinality(LiveBackends) <= 1
    /\ ~mounted => LiveBackends = {}

\* C10: a startRecording called when the session is not Ready with an active
\* device and an initialised backend issues no call and changes no state.
C10_StartOnlyWhenReady ==
    [][(lastOp' = "startRecording"
          /\ ~(Status = "Ready" /\ activeAudioDeviceId # 0 /\ wavesurfer # 0
                 /\ recordPlugin # 0))
         => (/\ issued' = {}
             /\ UNCHANGED <<reactState, backendState, resourceState>>)]_vars

\* The position of call c in the sequence calls (0 = not made).
Position(calls, c) ==
    IF \E i \in 1..Len(calls) : calls[i] = c
    THEN CHOOSE i \in 1..Len(calls) : calls[i] = c /\ \A j \in 1..(i - 1) : calls[j] # c
    ELSE 0

\* C11: a stopRecording called when the current plugin is not recording
\* produces no record-end event, no object URL and no upload; one called
\* while Recording makes that plugin stop and owe one more record-end event;
\* and every record-end handler creates exactly one object URL and starts
\* exactly one upload, making the object URL and the File before it calls
\* uploadTheFile, and, when it is the current plugin's and the component is
\* mounted, leaves the session Recorded holding that URL.
C11_StopOnlyWhenRecording ==
    [][/\ (lastOp' = "stopRecording" /\ Status # "Recording")
            => UNCHANGED <<starting, micActive, stopping, reactState, resourceState>>
       /\ (lastOp' = "stopRecording" /\ Status = "Recording")
            => (/\ stopping' = Append(stopping, recordPlugin)
                /\ micActive' = micActive \ {recordPlugin}
                /\ UNCHANGED <<starting, reactState, resourceState>>)
       /\ (urls' # urls \/ Len(upload') # Len(upload))
            => (/\ lastOp' = "record-end"
                /\ stopping # << >> /\ stopping' = Tail(stopping)
                /\ urls' = urls + 1
                /\ Len(upload') = Len(upload) + 1 /\ upload'[urls'] = "pending"
                /\ Position(recordEndCalls', "createObjectURL") > 0
                /\ Position(recordEndCalls', "new File") > 0
                /\ Position(recordEndCalls', "createObjectURL")
                     < Position(recordEndCalls', "uploadFiles")
                /\ Position(recordEndCalls', "new File")
                     < Position(recordEndCalls', "uploadFiles")
                /\ (mounted /\ recordPlugin = Head(stopping))
                     => (Status' = "Recorded" /\ recordingUrl' = urls'))]_vars

\* C12: once the enumeration has returned, the active device is the first
\* entry of the list it returned when that list is not empty, and no device
\* is active when it is empty; getUserMedia is called by the mount effect
\* only, which runs once: the request is made before any other operation and
\* is never made again.
C12_FirstDeviceActive ==
    [][/\ (permission' = "enumerated" /\ mounted')
            => (/\ availableAudioDevices' \in DeviceLists
                /\ Len(availableAudioDevices') > 0
                     => activeAudioDeviceId' = availableAudioDevices'[1]
                /\ Len(availableAudioDevices') = 0 => activeAudioDeviceId' = 0)
       /\ permission' # "enumerated" => activeAudioDeviceId' = 0
       /\ "getUserMedia" \in issued'
            => (permission = "unrequested" /\ lastOp' = "mount")
       /\ permission' # "unrequested"
       /\ permission # "unrequested" => lastOp' # "mount"]_vars

\* Two devices were found and the first of them is active.
C12_Witness ==
    /\ permission = "enumerated" /\ availableAudioDevices = <<2, 1>>
    /\ activeAudioDeviceId = 2

\* No device was found and none is active.
C12_WitnessEmpty ==
    /\ permission = "enumerated" /\ mounted /\ availableAudioDevices = << >>
    /\ activeAudioDeviceId = 0

\* C13: once playback is toggled the display shows the playback position,
\* and every recording started after an earlier one, whether or not a clear
\* came in between, shows the recording duration again: right after a
\* startRecording that started it, the displayed time code is recordingTime.
C13_NewRecordingShowsDuration ==
    /\ (lastOp = "onClickPlayPause" /\ "ws.playPause" \in issued)
         => shouldUpdatePlaybackTime
    /\ (lastOp = "startRecording" /\ "rp.startRecording" \in issued /\ urls > 0)
         => ~shouldUpdatePlaybackTime

\* C14: while mounted, a held deletion URL belongs to the held artifact:
\* deleteFileUrl non-null implies recordingUrl non-null, and the deletion URL
\* is the one returned by the upload of the held, most recent recording.
C14_HandleBelongsToArtifact ==
    (mounted /\ deleteFileUrl # 0)
        => (recordingUrl # 0 /\ deleteFileUrl = recordingUrl /\ deleteFileUrl = urls)

====
